---------------------------- MODULE Spec2Model ----------------------------
(***************************************************************************)
(* A model of stemtools: the exact-area resampler (resizer, resizer2D,     *)
(* bin4D), the virtual aperture (test_aperture, aperture_image), the disk  *)
(* locator (fit_nbed_disks), the strain extractor (strain_in_ROI,          *)
(* strain_oldstyle), the scatter of ROI values (ROI_strain_map) and the    *)
(* per-pixel loop of eels_3D.                                              *)
(*                                                                         *)
(* Arithmetic is exact: a float64 value is modelled as a rational number   *)
(* <<numerator, denominator>> in lowest terms with a positive denominator. *)
(* Arrays are sequences; the source's index k (from 0) is position k+1.    *)
(***************************************************************************)
EXTENDS Integers, Sequences, FiniteSets, TLC

VARIABLES
    pc,           \* the position of the running function
    ii,           \* the index of an outer loop
    jj,           \* the index of an inner loop
    \* resizer
    data,         \* the input array (integers)
    N,            \* the target length
    res,          \* the output array (rationals)
    carry,        \* the part of data[m-1] that belongs to the next bin
    m,            \* the input index
    n,            \* the output index
    data_sum,     \* the accumulator of the current bin
    \* ROI_strain_map
    strain_ROI,   \* the values of the ROI pixels
    ROI,          \* the boolean mask, a sequence of rows
    strain_map,   \* the map returned
    \* bin4D, test_aperture, aperture_image
    data4D,       \* [shape, at]: at maps <<ky, kx, i, j>> (from 1) to the value
    dtype,        \* data4D.dtype: "int64" or "float64"
    bin_factor,
    binned_data,
    center,       \* (cx, cy) of the aperture
    radius,
    aperture,     \* what test_aperture returned
    df_image,     \* what aperture_image returned
    \* fit_nbed_disks
    corr_image,   \* the image, as the disks the peak fitter finds in it
    diff_spots,   \* the (h, k) index of every disk
    fitted_disk_list,
    fit_result,   \* what fit_nbed_disks returned
    \* strain_in_ROI, strain_oldstyle
    style,        \* the function that runs: "strain_in_ROI", "strain_oldstyle", "eels_3D"
    data4D_ROI,   \* the patterns of the ROI, each as corr_image is
    pos_list,     \* the (h, k) index of every disk
    reference_axes,
    mean_cbed,    \* the mean pattern
    inverse_axes,
    e_xx_ROI,
    e_xy_ROI,
    e_th_ROI,
    e_yy_ROI,
    \* the per-pixel loops run as a parallel map, eels_3D
    pending,      \* the iterations not started
    running,      \* the iterations started, each with the number of its stores done
    eels_clean,   \* [shape, at]: at maps <<e, i, j>> (from 1) to the value
    fit_range,    \* per element, the (start, stop) of the background window
    peak_range,   \* per element, the (start, stop) of the peak window
    peak_values,
    \* resizer2D
    data2D,       \* [shape, at]: at maps <<y, x>> (from 1) to the value
    sampling,     \* the downsampling factor of each axis (rationals)
    resampled_x,  \* the rows resampled
    resampled,    \* the array returned
    \* the outlier clamp of strain_in_ROI
    edges,        \* the edge image as sc.sobel returned it, a sequence of rows
    med_factor,
    sobel_lm_cbed,      \* the edge image of the mean pattern
    sobel_log_pattern   \* the edge image of the pattern

rzVars == <<data, N, res, carry, m, n, data_sum>>
mapVars == <<strain_ROI, ROI, strain_map>>
d4Vars == <<data4D, dtype, bin_factor, binned_data, center, radius, aperture, df_image>>
fitVars == <<corr_image, diff_spots, fitted_disk_list, fit_result>>
strainVars == <<style, data4D_ROI, pos_list, reference_axes, mean_cbed, inverse_axes,
                e_xx_ROI, e_xy_ROI, e_th_ROI, e_yy_ROI>>
parVars == <<pending, running, eels_clean, fit_range, peak_range, peak_values>>
r2Vars == <<data2D, sampling, resampled_x, resampled>>
clampVars == <<edges, med_factor, sobel_lm_cbed, sobel_log_pattern>>

vars == <<pc, ii, jj, rzVars, mapVars, d4Vars, fitVars, strainVars, parVars, r2Vars, clampVars>>

\* what a function leaves alone: the variables of the other functions
rzOthers == <<ii, jj, mapVars, d4Vars, fitVars, strainVars, parVars, r2Vars, clampVars>>
mapOthers == <<ii, jj, rzVars, d4Vars, fitVars, strainVars, parVars, r2Vars, clampVars>>
d4Others == <<rzVars, mapVars, fitVars, strainVars, parVars, r2Vars, clampVars>>
fitOthers == <<jj, rzVars, mapVars, d4Vars, strainVars, parVars, r2Vars, clampVars>>
strainOthers == <<jj, rzVars, mapVars, d4Vars, fitVars, r2Vars, clampVars>>
r2Others == <<rzVars, mapVars, d4Vars, fitVars, strainVars, parVars, clampVars>>
clampOthers == <<ii, jj, rzVars, mapVars, d4Vars, fitVars, strainVars, parVars, r2Vars>>

\* the variables of a function that is not running
IdleLoop == ii = 0 /\ jj = 0
IdleRz ==
    /\ data = <<>> /\ N = 0 /\ res = <<>> /\ carry = <<0, 1>>
    /\ m = 0 /\ n = 0 /\ data_sum = <<0, 1>>
IdleMap == strain_ROI = <<>> /\ ROI = <<>> /\ strain_map = <<>>
IdleD4 ==
    /\ data4D = <<>> /\ dtype = "" /\ bin_factor = 0 /\ binned_data = <<>>
    /\ center = <<>> /\ radius = <<0, 1>> /\ aperture = <<>> /\ df_image = <<>>
IdleFit ==
    /\ corr_image = <<>> /\ diff_spots = <<>> /\ fitted_disk_list = <<>>
    /\ fit_result = <<>>
IdleStrain ==
    /\ style = "" /\ data4D_ROI = <<>> /\ pos_list = <<>> /\ reference_axes = <<>>
    /\ mean_cbed = <<>> /\ inverse_axes = <<>>
    /\ e_xx_ROI = <<>> /\ e_xy_ROI = <<>> /\ e_th_ROI = <<>> /\ e_yy_ROI = <<>>
IdlePar ==
    /\ pending = {} /\ running = <<>> /\ eels_clean = <<>>
    /\ fit_range = <<>> /\ peak_range = <<>>
    /\ peak_values = <<>>
IdleR2 == data2D = <<>> /\ sampling = <<>> /\ resampled_x = <<>> /\ resampled = <<>>
IdleClamp ==
    /\ edges = <<>> /\ med_factor = <<0, 1>> /\ sobel_lm_cbed = <<>>
    /\ sobel_log_pattern = <<>>

---------------------------------------------------------------------------
(* Bounds of the model.                                                    *)

MaxLen == 4       \* resizer: the longest input array
MaxN == 5         \* resizer: the largest target length
MaxVal == 2       \* resizer: the largest sample value (the smallest is -1)
MaxMapElems == 4  \* ROI_strain_map: the most pixels of a mask (rows * columns)
MaxStrain == 2    \* ROI_strain_map: the largest value (the smallest is 0)
MaxPix == 1       \* bin4D, aperture_image: the largest value of data4D (from 0)
MaxBinElems == 6  \* bin4D: the most elements of data4D
MaxBin == 2       \* bin4D: the largest bin_factor
MaxApElems == 4   \* aperture_image: the most elements of data4D
MaxCenter2 == 2   \* aperture_image: center coordinates are 0, 1/2, .. MaxCenter2/2
MaxRadius2 == 2   \* aperture_image: radii are -1/2, 0, 1/2, .. MaxRadius2/2
MaxDisks == 3     \* fit_nbed_disks: the most disks of a pattern
MaxROI == 2       \* strain_in_ROI: the most patterns of the ROI
MaxStretch == 2   \* strain_in_ROI: a pattern is stretched by 1+s, 0 <= s <= MaxStretch
MaxEnergies == 3  \* eels_3D: the most energy channels of a spectrum
MaxScan == 2      \* eels_3D: the most scan positions
MaxElements == 2  \* eels_3D: the most peak windows
MaxR2Elems == 4   \* resizer2D: the most elements of data
MaxSampling == 2  \* resizer2D: sampling factors are a/b, a <= MaxSampling, b <= 2
MaxEdgeElems == 4 \* outlier clamp: the most pixels of an edge image
MaxMedFactor == 2 \* outlier clamp: med_factor is 1/2, 1, .. MaxMedFactor
MaxWalkLen == 4   \* index walk of resizer: the largest length of data
MaxWalkN == 5     \* index walk of resizer: the largest target length

---------------------------------------------------------------------------
(* Exact rational arithmetic standing for float64 arithmetic.              *)

Abs(x) == IF x < 0 THEN 0 - x ELSE x

RECURSIVE GCD(_, _)
GCD(a, b) == IF b = 0 THEN a ELSE GCD(b, a % b)

\* num/den in lowest terms, the denominator positive (den # 0)
Rat(num, den) ==
    LET g == GCD(Abs(num), Abs(den))
        s == IF den < 0 THEN 0 - 1 ELSE 1
    IN  <<(s * num) \div g, (s * den) \div g>>

ToRat(k) == <<k, 1>>
RAdd(a, b) == Rat(a[1] * b[2] + b[1] * a[2], a[2] * b[2])
RSub(a, b) == Rat(a[1] * b[2] - b[1] * a[2], a[2] * b[2])
RMul(a, b) == Rat(a[1] * b[1], a[2] * b[2])
RDiv(a, b) == Rat(a[1] * b[2], a[2] * b[1])
RNeg(a) == <<0 - a[1], a[2]>>
RLeq(a, b) == a[1] * b[2] <= b[1] * a[2]
RZero == ToRat(0)

RECURSIVE RSum(_)
RSum(s) == IF s = <<>> THEN RZero ELSE RAdd(Head(s), RSum(Tail(s)))

\* an array held by its entries, as numpy holds it
Arr(a) == a \o <<>>

\* data.astype(np.float64)
AsFloat(a) == [k \in DOMAIN a |-> ToRat(a[k])]

---------------------------------------------------------------------------
(* resizer (nbed_strain.py 141-181).                                       *)

\* the bug of a loop that also runs when the difference equals M
WhileCondInclusive(mm, nn, MM, NN) == mm * NN - nn * MM <= MM

\* while m*N - n*M < M
WhileCond(mm, nn, MM, NN) == mm * NN - nn * MM < MM

\* a[k] with Python's index rule: a negative k counts from the end
PyAt(a, k) == IF k < 0 THEN a[Len(a) + k + 1] ELSE a[k + 1]

\* the bug of taking the bin edge of bin n instead of bin n+1
CarryOfThisBin(fdata, mm, nn, NN) ==
    RMul(RSub(ToRat(mm), RDiv(ToRat(nn * Len(fdata)), ToRat(NN))), PyAt(fdata, mm - 1))

\* carry = (m-(n+1)*M/N)*data[m-1]
CarryOf(fdata, mm, nn, NN) ==
    RMul(RSub(ToRat(mm), RDiv(ToRat((nn + 1) * Len(fdata)), ToRat(NN))), PyAt(fdata, mm - 1))

\* the bug of leaving the carried part in the bin
SubCarryDropped(ds, c) == ds

\* data_sum -= carry
SubCarry(ds, c) == RSub(ds, c)

\* res[n] = data_sum*N/M
BinValue(ds, MM, NN) == RDiv(RMul(ds, ToRat(NN)), ToRat(MM))

\* the while loop of bin nn, from input index mm with the sum ds: <<m, data_sum>>
RECURSIVE WhileLoop(_, _, _, _, _)
WhileLoop(fdata, NN, nn, mm, ds) ==
    IF WhileCond(mm, nn, Len(fdata), NN)
    THEN WhileLoop(fdata, NN, nn, mm + 1, RAdd(ds, PyAt(fdata, mm)))
    ELSE <<mm, ds>>

\* the for loop from bin nn on
RECURSIVE ForLoop(_, _, _, _, _, _)
ForLoop(fdata, NN, nn, mm, cc, out) ==
    IF nn >= NN
    THEN out
    ELSE LET w == WhileLoop(fdata, NN, nn, mm, cc)
             c == CarryOf(fdata, w[1], nn, NN)
             ds == SubCarry(w[2], c)
         IN  ForLoop(fdata, NN, nn + 1, w[1], c,
                     Append(out, BinValue(ds, Len(fdata), NN)))

\* resizer(data, N) as a function of a float array
resizer(fdata, NN) == ForLoop(fdata, NN, 0, 0, RZero, <<>>)

InitResizer ==
    /\ \E MM \in 1..MaxLen : data \in [1..MM -> (0 - 1)..MaxVal]
    /\ N \in 1..MaxN
    /\ res = [k \in 1..N |-> RZero]
    /\ carry = RZero
    /\ m = 0
    /\ n = 0
    /\ data_sum = RZero
    /\ pc = "for"
    /\ IdleLoop /\ IdleMap /\ IdleD4 /\ IdleFit /\ IdleStrain /\ IdlePar /\ IdleR2
    /\ IdleClamp

\* for n in range(int(N)): data_sum = carry
ForHead ==
    /\ pc = "for"
    /\ n < N
    /\ data_sum' = carry
    /\ pc' = "while"
    /\ UNCHANGED <<data, N, res, carry, m, n, rzOthers>>

\* data_sum += data[m]; m += 1
WhileBody ==
    /\ pc = "while"
    /\ WhileCond(m, n, Len(data), N)
    /\ IF m < Len(data)
       THEN /\ data_sum' = RAdd(data_sum, AsFloat(data)[m + 1])
            /\ m' = m + 1
            /\ pc' = "while"
       ELSE /\ pc' = "IndexError"
            /\ UNCHANGED <<data_sum, m>>
    /\ UNCHANGED <<data, N, res, carry, n, rzOthers>>

\* carry = (m-(n+1)*M/N)*data[m-1]; data_sum -= carry; res[n] = data_sum*N/M
WhileExit ==
    /\ pc = "while"
    /\ ~WhileCond(m, n, Len(data), N)
    /\ \E c \in {CarryOf(AsFloat(data), m, n, N)} :
          \E ds \in {SubCarry(data_sum, c)} :
              /\ carry' = c
              /\ data_sum' = ds
              /\ res' = [res EXCEPT ![n + 1] = BinValue(ds, Len(data), N)]
    /\ n' = n + 1
    /\ pc' = "for"
    /\ UNCHANGED <<data, N, m, rzOthers>>

\* return res
ResizerReturn ==
    /\ pc = "for"
    /\ n = N
    /\ pc' = "done"
    /\ UNCHANGED <<rzVars, rzOthers>>

NextResizer == ForHead \/ WhileBody \/ WhileExit \/ ResizerReturn

SpecResizer == InitResizer /\ [][NextResizer]_vars

\* the stepwise run and the function agree
ResizerStepsAgree == pc = "done" => res = resizer(AsFloat(data), N)

(* C1: resizer(data, N) returns an array of length N whose sum is           *)
(* sum(data) * N / M, for every length M >= 1 and target N >= 1.            *)
C1_SumScaled ==
    pc = "done" =>
        /\ Len(res) = N
        /\ RSum(res) = RDiv(RMul(RSum(AsFloat(data)), ToRat(N)), ToRat(Len(data)))

\* a downsampling by the non-integer ratio 3/2 of nonzero data has returned
C1_Witness ==
    /\ pc = "done"
    /\ Len(data) = 3
    /\ N = 2
    /\ data = <<1, 2, 2>>
    /\ RSum(res) = Rat(10, 3)

(* C2: resizer(data, len(data)) equals data element by element.             *)
C2_SameLengthIdentity ==
    (pc = "done" /\ N = Len(data)) => res = AsFloat(data)

\* a same-length resampling of an array of distinct values has returned
C2_Witness ==
    /\ pc = "done"
    /\ N = Len(data)
    /\ data = <<2, 0 - 1, 1>>

---------------------------------------------------------------------------
(* ROI_strain_map (nbed_strain.py 501-511).                                *)

\* the shapes (rows, columns) of at most k elements
Shapes2D(k) == {sh \in (1..k) \X (1..k) : sh[1] * sh[2] <= k}

\* a 2D array in row-major (C) order
RECURSIVE Ravel(_)
Ravel(mat) == IF mat = <<>> THEN <<>> ELSE Head(mat) \o Ravel(Tail(mat))

CountTrue(flat) == Cardinality({k \in DOMAIN flat : flat[k]})

\* the bug of walking the mask column by column
MaskRankFortran(mask, r, c) ==
    Cardinality({q \in (1..Len(mask)) \X (1..Len(mask[1])) :
                    /\ mask[q[1]][q[2]]
                    /\ (q[2] < c \/ (q[2] = c /\ q[1] <= r))})

\* the place of the true pixel (r, c) among the true pixels, which a boolean
\* index walks row by row
MaskRank(mask, r, c) ==
    Cardinality({q \in (1..Len(mask)) \X (1..Len(mask[1])) :
                    /\ mask[q[1]][q[2]]
                    /\ (q[1] < r \/ (q[1] = r /\ q[2] <= c))})

\* np.zeros_like(ROI, dtype=np.float64)
ZerosLike(mat) == [r \in DOMAIN mat |-> [c \in DOMAIN mat[r] |-> RZero]]

\* arr[mask] = vals takes one value per true pixel, or a single value for all
\* of them; any other count raises ValueError
MaskFits(mask, vals) == Len(vals) = CountTrue(Ravel(mask)) \/ Len(vals) = 1

\* arr[mask] = vals
MaskAssign(arr, mask, vals) ==
    [r \in DOMAIN arr |-> [c \in DOMAIN arr[r] |->
        IF mask[r][c]
        THEN IF Len(vals) = CountTrue(Ravel(mask))
             THEN vals[MaskRank(mask, r, c)]
             ELSE vals[1]
        ELSE arr[r][c]]]

\* arr[mask]: the values at the true pixels, in row-major order
RECURSIVE SelectFlat(_, _)
SelectFlat(flat, fmask) ==
    IF flat = <<>> THEN <<>>
    ELSE (IF Head(fmask) THEN <<Head(flat)>> ELSE <<>>)
         \o SelectFlat(Tail(flat), Tail(fmask))

MaskRead(arr, mask) == SelectFlat(Ravel(arr), Ravel(mask))

ROI_strain_map(vals, mask) == MaskAssign(ZerosLike(mask), mask, AsFloat(vals))

InitMap ==
    /\ \E sh \in Shapes2D(MaxMapElems) : ROI \in [1..sh[1] -> [1..sh[2] -> BOOLEAN]]
    /\ \E k \in 0..MaxMapElems : strain_ROI \in [1..k -> 0..MaxStrain]
    /\ strain_map = <<>>
    /\ pc = "call"
    /\ IdleLoop /\ IdleRz /\ IdleD4 /\ IdleFit /\ IdleStrain /\ IdlePar /\ IdleR2
    /\ IdleClamp

\* strain_map = np.zeros_like(ROI); strain_map[ROI] = strain_ROI; return
MapCall ==
    /\ pc = "call"
    /\ IF MaskFits(ROI, strain_ROI)
       THEN pc' = "done" /\ strain_map' = ROI_strain_map(strain_ROI, ROI)
       ELSE pc' = "ValueError" /\ UNCHANGED strain_map
    /\ UNCHANGED <<strain_ROI, ROI, mapOthers>>

NextMap == MapCall

SpecMap == InitMap /\ [][NextMap]_vars

(* C7: with as many values as ROI has true pixels, ROI_strain_map returns a *)
(* map of ROI's shape that reads back the values at the true pixels, in     *)
(* row-major order, and is 0 at every other pixel.                         *)
C7_ScatterReadsBack ==
    (pc # "call" /\ Len(strain_ROI) = CountTrue(Ravel(ROI))) =>
        /\ pc = "done"
        /\ Len(strain_map) = Len(ROI)
        /\ \A r \in DOMAIN ROI : Len(strain_map[r]) = Len(ROI[r])
        /\ MaskRead(strain_map, ROI) = AsFloat(strain_ROI)
        /\ \A r \in DOMAIN ROI : \A c \in DOMAIN ROI[r] :
               ~ROI[r][c] => strain_map[r][c] = RZero

\* three distinct values were scattered into a 2x2 mask with one false pixel
C7_Witness ==
    /\ pc = "done"
    /\ ROI = <<(<<FALSE, TRUE>>), (<<TRUE, TRUE>>)>>
    /\ strain_ROI = <<2, 0, 1>>
    /\ strain_map = <<(<<RZero, ToRat(2)>>), (<<RZero, ToRat(1)>>)>>

---------------------------------------------------------------------------
(* Arrays of two to four dimensions: [shape, at], at a function of the     *)
(* index tuple (from 1).                                                   *)

Idx2(sh) == (1..sh[1]) \X (1..sh[2])
Idx3(sh) == (1..sh[1]) \X (1..sh[2]) \X (1..sh[3])
Idx4(sh) == (1..sh[1]) \X (1..sh[2]) \X (1..sh[3]) \X (1..sh[4])

\* the 4D shapes of at most k elements
Shapes4D(k) ==
    {sh \in (1..k) \X (1..k) \X (1..k) \X (1..k) : sh[1] * sh[2] * sh[3] * sh[4] <= k}

\* the 4D integer arrays of at most k elements
Arrays4D(k) ==
    UNION {{[shape |-> sh, at |-> f] : f \in [Idx4(sh) -> 0..MaxPix]} : sh \in Shapes4D(k)}

RECURSIVE SumInts(_)
SumInts(s) == IF s = <<>> THEN 0 ELSE Head(s) + SumInts(Tail(s))

\* the bug of slicing data4D[:,:,i,0] whatever j is
Slice2DFirstColumn(A, i, j) ==
    [shape |-> <<A.shape[1], A.shape[2]>>,
     at |-> [q \in Idx2(<<A.shape[1], A.shape[2]>>) |-> ToRat(A.at[<<q[1], q[2], i, 1>>])]]

\* data4D[:,:,i,j] as a float array
Slice2D(A, i, j) ==
    [shape |-> <<A.shape[1], A.shape[2]>>,
     at |-> [q \in Idx2(<<A.shape[1], A.shape[2]>>) |-> ToRat(A.at[<<q[1], q[2], i, j>>])]]

Row(A, y) == [x \in 1..A.shape[2] |-> A.at[<<y, x>>]]
Col(A, x) == [y \in 1..A.shape[1] |-> A.at[<<y, x>>]]

---------------------------------------------------------------------------
(* resizer2D (nbed_strain.py 183-223) and bin4D (225-265).                 *)

\* np.round(p/q) for p >= 0, q > 0: to the nearest integer, a half to the even one
RoundHalfEven(p, q) ==
    LET f == p \div q
        r2 == 2 * (p % q)
    IN  IF r2 < q THEN f
        ELSE IF r2 > q THEN f + 1
        ELSE IF f % 2 = 0 THEN f ELSE f + 1

\* sampled_shape = (np.round(data_shape/sampling)).astype(int)
SampledShape(sh, smp) ==
    <<RoundHalfEven(sh[1], smp[1]), RoundHalfEven(sh[2], smp[2])>>

\* resizer of the rows y.. of A, one after the other
RECURSIVE RowsFrom(_, _, _)
RowsFrom(A, y, n1) ==
    IF y > A.shape[1] THEN <<>>
    ELSE <<resizer(Row(A, y), n1)>> \o RowsFrom(A, y + 1, n1)

\* resizer of the columns x.. of A, one after the other
RECURSIVE ColsFrom(_, _, _)
ColsFrom(A, x, n0) ==
    IF x > A.shape[2] THEN <<>>
    ELSE <<resizer(Col(A, x), n0)>> \o ColsFrom(A, x + 1, n0)

\* for yy: resampled_x[yy,:] = resizer(data[yy,:], sampled_shape[1])
ResampleRows(A, n1) ==
    LET rows == RowsFrom(A, 1, n1)
    IN  [shape |-> <<A.shape[1], n1>>,
         at |-> [q \in Idx2(<<A.shape[1], n1>>) |-> rows[q[1]][q[2]]]]

\* for xx: resampled[:,xx] = resizer(resampled_x[:,xx], sampled_shape[0])
ResampleCols(A, n0) ==
    LET cols == ColsFrom(A, 1, n0)
    IN  [shape |-> <<n0, A.shape[2]>>,
         at |-> [q \in Idx2(<<n0, A.shape[2]>>) |-> cols[q[2]][q[1]]]]

resizer2D(A, smp) ==
    LET ss == SampledShape(A.shape, smp)
    IN  ResampleCols(ResampleRows(A, ss[2]), ss[1])

\* a float64 value stored in an array of data4D.dtype: an integer array keeps
\* the integer part
Cast(x, dt) ==
    IF dt = "int64"
    THEN ToRat((IF x[1] < 0 THEN 0 - 1 ELSE 1) * (Abs(x[1]) \div x[2]))
    ELSE x

\* binned_data[:,:,ii,jj] = S
StoreSlice(B, S, i, j, dt) ==
    [B EXCEPT !.at = [q \in DOMAIN B.at |->
        IF q[3] = i /\ q[4] = j THEN Cast(S.at[<<q[1], q[2]>>], dt) ELSE B.at[q]]]

\* np.mean(data4D, axis=(-1,-2), dtype=np.float64)
MeanData(A) ==
    LET sh == <<A.shape[1], A.shape[2]>>
        cnt == A.shape[3] * A.shape[4]
    IN  [shape |-> sh,
         at |-> [q \in Idx2(sh) |->
             Rat(SumInts([k \in 1..cnt |->
                     A.at[<<q[1], q[2], ((k - 1) \div A.shape[4]) + 1,
                            ((k - 1) % A.shape[4]) + 1>>]]), cnt)]]

InitBin4D ==
    /\ data4D \in Arrays4D(MaxBinElems)
    /\ dtype \in {"int64", "float64"}
    /\ bin_factor \in 1..MaxBin
    /\ binned_data = <<>>
    /\ center = <<>> /\ radius = <<0, 1>> /\ aperture = <<>> /\ df_image = <<>>
    /\ ii = 0 /\ jj = 0
    /\ pc = "call"
    /\ IdleRz /\ IdleMap /\ IdleFit /\ IdleStrain /\ IdlePar /\ IdleR2 /\ IdleClamp

\* mean_data, mean_binned and the zero array binned_data
Bin4DAlloc ==
    /\ pc = "call"
    /\ LET mean_binned == resizer2D(MeanData(data4D), <<bin_factor, bin_factor>>)
           sh == <<mean_binned.shape[1], mean_binned.shape[2],
                   data4D.shape[3], data4D.shape[4]>>
       IN  binned_data' = [shape |-> sh, at |-> [q \in Idx4(sh) |-> RZero]]
    /\ ii' = 0 /\ jj' = 0
    /\ pc' = "loop"
    /\ UNCHANGED <<data4D, dtype, bin_factor, center, radius, aperture, df_image, d4Others>>

\* for ii: for jj: binned_data[:,:,ii,jj] = resizer2D(data4D[:,:,ii,jj], ...)
Bin4DSlice ==
    /\ pc = "loop"
    /\ ii < data4D.shape[3]
    /\ binned_data' =
           StoreSlice(binned_data,
                      resizer2D(Slice2D(data4D, ii + 1, jj + 1), <<bin_factor, bin_factor>>),
                      ii + 1, jj + 1, dtype)
    /\ IF jj + 1 < data4D.shape[4]
       THEN jj' = jj + 1 /\ ii' = ii
       ELSE jj' = 0 /\ ii' = ii + 1
    /\ UNCHANGED <<pc, data4D, dtype, bin_factor, center, radius, aperture, df_image, d4Others>>

\* return binned_data
Bin4DReturn ==
    /\ pc = "loop"
    /\ ii = data4D.shape[3]
    /\ pc' = "done"
    /\ UNCHANGED <<ii, jj, d4Vars, d4Others>>

NextBin4D == Bin4DAlloc \/ Bin4DSlice \/ Bin4DReturn

SpecBin4D == InitBin4D /\ [][NextBin4D]_vars

(* C8: bin4D(data4D, 1) returns an array of the shape of data4D whose every *)
(* element equals the element of data4D at the same index.                 *)
C8_BinByOneIdentity ==
    (pc = "done" /\ bin_factor = 1) =>
        /\ binned_data.shape = data4D.shape
        /\ \A q \in Idx4(data4D.shape) : binned_data.at[q] = ToRat(data4D.at[q])

\* a 2x3 pattern that is not symmetric was binned by 1
C8_Witness ==
    /\ pc = "done"
    /\ bin_factor = 1
    /\ data4D.shape = <<2, 3, 1, 1>>
    /\ data4D.at[<<1, 2, 1, 1>>] = 1
    /\ data4D.at[<<2, 1, 1, 1>>] = 0
    /\ binned_data.at[<<1, 2, 1, 1>>] = ToRat(1)

---------------------------------------------------------------------------
(* test_aperture (nbed_strain.py 267-313), aperture_image (315-360).       *)

\* (q ** 0.5) <= r, for q >= 0
SqrtLeq(q, r) == RLeq(RZero, r) /\ RLeq(q, RMul(r, r))

\* the bug of taking center as (cy, cx)
ApertureOfSwapped(sh, c, r) ==
    [shape |-> sh,
     at |-> [q \in Idx2(sh) |->
         LET yy == RSub(ToRat(q[1] - 1), c[1])
             xx == RSub(ToRat(q[2] - 1), c[2])
         IN  IF SqrtLeq(RAdd(RMul(yy, yy), RMul(xx, xx)), r) THEN 1 ELSE 0]]

\* yy,xx = np.mgrid[...]; yy = yy - center[1]; xx = xx - center[0];
\* rr = ((yy ** 2) + (xx ** 2)) ** 0.5; aperture = np.asarray(rr<=radius, dtype)
ApertureOf(sh, c, r) ==
    [shape |-> sh,
     at |-> [q \in Idx2(sh) |->
         LET yy == RSub(ToRat(q[1] - 1), c[2])
             xx == RSub(ToRat(q[2] - 1), c[1])
         IN  IF SqrtLeq(RAdd(RMul(yy, yy), RMul(xx, xx)), r) THEN 1 ELSE 0]]

\* apt_copy = np.empty((shape[2], shape[3]) + aperture.shape); apt_copy[:] = aperture
AptCopy(A, ap) ==
    LET sh == <<A.shape[3], A.shape[4], ap.shape[1], ap.shape[2]>>
    IN  [shape |-> sh, at |-> [q \in Idx4(sh) |-> ap.at[<<q[3], q[4]>>]]]

\* np.transpose(X, (2,3,0,1))
Transpose2301(X) ==
    LET sh == <<X.shape[3], X.shape[4], X.shape[1], X.shape[2]>>
    IN  [shape |-> sh, at |-> [q \in Idx4(sh) |-> X.at[<<q[3], q[4], q[1], q[2]>>]]]

\* X * Y, element by element
Mult4(X, Y) == [shape |-> X.shape, at |-> [q \in Idx4(X.shape) |-> X.at[q] * Y.at[q]]]

\* np.sum(X, axis=0) of a 4D and of a 3D array
SumAxis0of4(X) ==
    LET sh == Tail(X.shape)
    IN  [shape |-> sh,
         at |-> [q \in Idx3(sh) |-> SumInts([a \in 1..X.shape[1] |-> X.at[<<a>> \o q]])]]

SumAxis0of3(X) ==
    LET sh == Tail(X.shape)
    IN  [shape |-> sh,
         at |-> [q \in Idx2(sh) |-> SumInts([a \in 1..X.shape[1] |-> X.at[<<a>> \o q]])]]

test_aperture(pattern_shape, c, r) == ApertureOf(pattern_shape, c, r)

aperture_image(A, c, r) ==
    LET ap == ApertureOf(<<A.shape[1], A.shape[2]>>, c, r)
        apt_copy == Transpose2301(AptCopy(A, ap))
        apt_mult == Mult4(apt_copy, A)
    IN  SumAxis0of3(SumAxis0of4(apt_mult))

InitAperture ==
    /\ data4D \in Arrays4D(MaxApElems)
    /\ dtype \in {"float64"}
    /\ center \in {<<Rat(x, 2), Rat(y, 2)>> : x \in 0..MaxCenter2, y \in 0..MaxCenter2}
    /\ radius \in {Rat(r, 2) : r \in (0 - 1)..MaxRadius2}
    /\ aperture = <<>>
    /\ df_image = <<>>
    /\ bin_factor = 0 /\ binned_data = <<>>
    /\ ii = 0 /\ jj = 0
    /\ pc = "test"
    /\ IdleRz /\ IdleMap /\ IdleFit /\ IdleStrain /\ IdlePar /\ IdleR2 /\ IdleClamp

\* test_aperture(pattern, center, radius) on a pattern of the dataset, to try the
\* aperture before the image is made
TestAperture ==
    /\ pc = "test"
    /\ aperture' = test_aperture(<<data4D.shape[1], data4D.shape[2]>>, center, radius)
    /\ pc' = "image"
    /\ UNCHANGED <<ii, jj, data4D, dtype, bin_factor, binned_data, center, radius,
                   df_image, d4Others>>

\* aperture_image(data4D, center, radius)
ApertureImage ==
    /\ pc = "image"
    /\ df_image' = aperture_image(data4D, center, radius)
    /\ pc' = "done"
    /\ UNCHANGED <<ii, jj, data4D, dtype, bin_factor, binned_data, center, radius,
                   aperture, d4Others>>

NextAperture == TestAperture \/ ApertureImage

SpecAperture == InitAperture /\ [][NextAperture]_vars

\* the pattern pixel (ky, kx), from 0, lies within radius of center
InDisk(ky, kx) ==
    /\ RLeq(RZero, radius)
    /\ LET dx == RSub(ToRat(kx), center[1])
           dy == RSub(ToRat(ky), center[2])
       IN  RLeq(RAdd(RMul(dx, dx), RMul(dy, dy)), RMul(radius, radius))

RECURSIVE SumOver(_, _, _, _)
SumOver(A, S, i, j) ==
    IF S = {} THEN 0
    ELSE LET q == CHOOSE q \in S : TRUE
         IN  A.at[<<q[1], q[2], i, j>>] + SumOver(A, S \ {q}, i, j)

(* C10: aperture_image returns, at every scan pixel (i, j), the sum of      *)
(* data4D[ky, kx, i, j] over exactly the pattern pixels with               *)
(* (kx - cx)^2 + (ky - cy)^2 <= radius^2 (none when radius < 0), and       *)
(* test_aperture marks the same pixels.                                    *)
C10_ApertureSum ==
    LET disk == {q \in Idx2(<<data4D.shape[1], data4D.shape[2]>>) :
                    InDisk(q[1] - 1, q[2] - 1)}
    IN  /\ pc = "done" =>
              /\ df_image.shape = <<data4D.shape[3], data4D.shape[4]>>
              /\ \A q \in Idx2(df_image.shape) :
                     df_image.at[q] = SumOver(data4D, disk, q[1], q[2])
        /\ pc \in {"image", "done"} =>
              /\ aperture.shape = <<data4D.shape[1], data4D.shape[2]>>
              /\ \A q \in Idx2(aperture.shape) : (aperture.at[q] = 1) <=> (q \in disk)

\* an aperture of radius 1 about (1, 0) took three of the four pixels of a 2x2
\* pattern, the pixels at distance 1 included
C10_Witness ==
    /\ pc = "done"
    /\ data4D.shape = <<2, 2, 1, 1>>
    /\ center = <<ToRat(1), ToRat(0)>>
    /\ radius = ToRat(1)
    /\ data4D.at[<<1, 1, 1, 1>>] = 1
    /\ data4D.at[<<2, 1, 1, 1>>] = 1
    /\ data4D.at[<<1, 2, 1, 1>>] = 1
    /\ data4D.at[<<2, 2, 1, 1>>] = 1
    /\ df_image.at[<<1, 1>>] = 3
    /\ aperture.at[<<2, 1>>] = 0

---------------------------------------------------------------------------
(* Matrices of rationals, as sequences of rows.                            *)

MatOfInts(A) == Arr([i \in DOMAIN A |-> Arr([j \in DOMAIN A[i] |-> ToRat(A[i][j])])])

MatMul(A, B) ==
    Arr([i \in 1..Len(A) |-> Arr([j \in 1..Len(B[1]) |->
        RSum([k \in 1..Len(B) |-> RMul(A[i][k], B[k][j])])])])

MatT(A) == Arr([j \in 1..Len(A[1]) |-> Arr([i \in 1..Len(A) |-> A[i][j]])])

MatScale(A, x) == Arr([i \in DOMAIN A |-> Arr([j \in DOMAIN A[i] |-> RMul(A[i][j], x)])])

MatSub(A, B) == Arr([i \in DOMAIN A |-> Arr([j \in DOMAIN A[i] |-> RSub(A[i][j], B[i][j])])])

Det2(A) == RSub(RMul(A[1][1], A[2][2]), RMul(A[1][2], A[2][1]))

\* np.linalg.inv of a 2x2 matrix; a singular matrix raises LinAlgError
Singular(A) == Det2(A) = RZero

Inv2(A) ==
    LET d == Det2(A)
    IN  <<(<<RDiv(A[2][2], d), RDiv(RNeg(A[1][2]), d)>>),
          (<<RDiv(RNeg(A[2][1]), d), RDiv(A[1][1], d)>>)>>

Zero22 == <<(<<RZero, RZero>>), (<<RZero, RZero>>)>>

\* np.eye(2)
i_matrix == <<(<<ToRat(1), RZero>>), (<<RZero, ToRat(1)>>)>>

\* np.linalg.lstsq(D, L): the least-squares X of D X = L, D of two columns; the
\* solution of least norm when D has rank 1 or 0
Lstsq(D, L) ==
    LET G == MatMul(MatT(D), D)
        DtL == MatMul(MatT(D), L)
    IN  IF ~Singular(G) THEN MatMul(Inv2(G), DtL)
        ELSE IF G = Zero22 THEN Zero22
        ELSE MatScale(DtL, RDiv(ToRat(1), RAdd(G[1][1], G[2][2])))

---------------------------------------------------------------------------
(* fit_nbed_disks (nbed_strain.py 395-419).  An image is modelled by the   *)
(* positions (x, y), in image convention, at which the peak fitter finds   *)
(* its disks, one per entry of the position list.                          *)

\* the lattice indices (h, k) a disk may have
SpotIndices == {<<0, 0>>, <<1, 0>>, <<0, 1>>, <<0 - 1, 1>>}

\* the lattice bases of the patterns: rows are the displacements (x, y), y
\* upward, of the disks (1,0) and (0,1): square, rectangular, sheared, rotated
\* by 45 degrees, hexagonal-like with a negative entry, and a degenerate one
Lattices ==
    { <<(<<1, 0>>), (<<0, 1>>)>>,
      <<(<<2, 0>>), (<<0, 1>>)>>,
      <<(<<1, 1>>), (<<0, 1>>)>>,
      <<(<<1, 0 - 1>>), (<<1, 1>>)>>,
      <<(<<2, 0>>), (<<0 - 1, 2>>)>>,
      <<(<<1, 1>>), (<<1, 1>>)>> }

\* the central disk of the synthetic patterns, in image convention
ImageCenter == <<2, 3>>

\* the pattern with its disks at c + index * B, y measured upward
Synth(c, B, idx) ==
    [k \in DOMAIN idx |->
        <<c[1] + idx[k][1] * B[1][1] + idx[k][2] * B[2][1],
          c[2] - (idx[k][1] * B[1][2] + idx[k][2] * B[2][2])>>]

\* the pattern with disk k, if any, moved by one pixel along x
Displace(disks, k) ==
    [q \in DOMAIN disks |-> IF q = k THEN <<disks[q][1] + 1, disks[q][2]>> ELSE disks[q]]

\* the bug of keeping the image's y
FlipYForgotten(fitted) == fitted

\* disk_locations = np.copy(fitted_disk_list); disk_locations[:,1] = 0 - disk_locations[:,1]
FlipY(fitted) == Arr([k \in DOMAIN fitted |-> <<fitted[k][1], RNeg(fitted[k][2])>>])

\* the bug of comparing only h with 0
CenterMaskHOnly(spots) == [k \in DOMAIN spots |-> spots[k][1] = 0]

\* np.logical_and((diff_spots[:,0] == 0),(diff_spots[:,1] == 0))
CenterMask(spots) == [k \in DOMAIN spots |-> spots[k][1] = 0 /\ spots[k][2] = 0]

\* disk_locations[mask,:]: the rows the mask selects, in order
RECURSIVE SelectRows(_, _)
SelectRows(rows, mask) ==
    IF rows = <<>> THEN <<>>
    ELSE (IF Head(mask) THEN <<Head(rows)>> ELSE <<>>) \o SelectRows(Tail(rows), Tail(mask))

\* center[0,0] raises IndexError when the mask selects no row
FitFails(spots) == SelectRows(spots, CenterMask(spots)) = <<>>

\* the value fit_nbed_disks returns for the fitted positions and the indices
fit_nbed_disks(fitted, spots) ==
    LET disk_locations == FlipY(fitted)
        cen == SelectRows(disk_locations, CenterMask(spots))
        cx == cen[1][1]
        cy == cen[1][2]
        centred == Arr([k \in DOMAIN disk_locations |->
                       <<RSub(disk_locations[k][1], cx), RSub(disk_locations[k][2], cy)>>])
        lcbed == Lstsq(MatOfInts(spots), centred)
    IN  [fitted_disk_list |-> fitted, center |-> <<cx, RNeg(cy)>>, lcbed |-> lcbed]

InitFit ==
    /\ \E k \in 1..MaxDisks : diff_spots \in [1..k -> SpotIndices]
    /\ \E B \in Lattices : \E off \in 0..Len(diff_spots) :
           corr_image = Displace(Synth(ImageCenter, B, diff_spots), off)
    /\ fitted_disk_list = [k \in DOMAIN diff_spots |-> <<RZero, RZero>>]
    /\ fit_result = <<>>
    /\ ii = 0
    /\ pc = "fit"
    /\ jj = 0 /\ IdleRz /\ IdleMap /\ IdleD4 /\ IdleStrain /\ IdlePar /\ IdleR2 /\ IdleClamp

\* par = gt.fit_gaussian2D_mask(...); fitted_disk_list[ii,:] = par[0], par[1]:
\* the fitter returns where disk ii of the image is
FitDisk ==
    /\ pc = "fit"
    /\ ii < Len(diff_spots)
    /\ fitted_disk_list' = [fitted_disk_list EXCEPT
           ![ii + 1] = <<ToRat(corr_image[ii + 1][1]), ToRat(corr_image[ii + 1][2])>>]
    /\ ii' = ii + 1
    /\ UNCHANGED <<pc, corr_image, diff_spots, fit_result, fitOthers>>

\* the central disk, the centred locations, the least-squares basis; return
FitLocate ==
    /\ pc = "fit"
    /\ ii = Len(diff_spots)
    /\ IF FitFails(diff_spots)
       THEN pc' = "IndexError" /\ UNCHANGED fit_result
       ELSE pc' = "done" /\ fit_result' = fit_nbed_disks(fitted_disk_list, diff_spots)
    /\ UNCHANGED <<ii, corr_image, diff_spots, fitted_disk_list, fitOthers>>

NextFit == FitDisk \/ FitLocate

SpecFit == InitFit /\ [][NextFit]_vars

\* the entries of the index list equal to (0,0)
CentralEntries == {k \in DOMAIN diff_spots : diff_spots[k] = <<0, 0>>}

\* the indices span the plane
RankTwo(spots) == ~Singular(MatMul(MatT(MatOfInts(spots)), MatOfInts(spots)))

(* C5: for disks exactly at center + index * B with one index (0,0) and     *)
(* indices of rank 2, fit_nbed_disks returns B as the lattice basis and    *)
(* the image position of the (0,0) disk as the center.                     *)
C5_RecoversBasis ==
    (pc = "done" /\ Cardinality(CentralEntries) = 1 /\ RankTwo(diff_spots)) =>
        \A B \in Lattices :
            corr_image = Synth(ImageCenter, B, diff_spots) =>
                /\ fit_result.lcbed = MatOfInts(B)
                /\ fit_result.center = <<ToRat(ImageCenter[1]), ToRat(ImageCenter[2])>>

\* the sheared lattice was recovered from three disks, the central one second
C5_Witness ==
    /\ pc = "done"
    /\ diff_spots = <<(<<0 - 1, 1>>), (<<0, 0>>), (<<1, 0>>)>>
    /\ corr_image = Synth(ImageCenter, <<(<<1, 1>>), (<<0, 1>>)>>, diff_spots)
    /\ fit_result.lcbed = MatOfInts(<<(<<1, 1>>), (<<0, 1>>)>>)

(* C6 as claimed: fit_nbed_disks returns a result only when exactly one     *)
(* entry of the index list equals (0,0), and fails otherwise.              *)
C6_FailsUnlessExactlyOne ==
    pc \in {"done", "IndexError"} => (pc = "done" <=> Cardinality(CentralEntries) = 1)

(* C6 as amended: fit_nbed_disks fails when no entry of the index list      *)
(* equals (0,0); with one or more such entries it returns a result, whose  *)
(* center is the fitted position of the first of them.                     *)
C6_FailsOnlyWithoutCentral ==
    pc \in {"done", "IndexError"} =>
        /\ pc = "IndexError" <=> CentralEntries = {}
        /\ pc = "done" =>
              LET first == CHOOSE k \in CentralEntries : \A q \in CentralEntries : k <= q
              IN  fit_result.center = fitted_disk_list[first]

\* a list with two (0,0) entries at different places gave a result
C6_Witness ==
    /\ pc = "done"
    /\ diff_spots = <<(<<1, 0>>), (<<0, 0>>), (<<0, 0>>)>>
    /\ fitted_disk_list[2] # fitted_disk_list[3]
    /\ fit_result.center = fitted_disk_list[2]

---------------------------------------------------------------------------
(* strain_in_ROI (nbed_strain.py 421-462) and strain_oldstyle (464-499).   *)
(* A pattern is modelled as corr_image is: by the disks the peak fitter    *)
(* finds after the preparation of the style (logarithm, Sobel edges, clamp *)
(* and cross-correlation, or the cross-correlation alone).  The default    *)
(* reference_axes=0 is modelled as <<0>>, whose np.size is 1.              *)

\* the index lists of the strain runs: central disk first, central disk last,
\* and a list without a central disk
StrainSpotLists ==
    { <<(<<0, 0>>), (<<1, 0>>), (<<0, 1>>)>>,
      <<(<<1, 0>>), (<<0 - 1, 1>>), (<<0, 0>>)>>,
      <<(<<1, 0>>), (<<0, 1>>)>> }

\* the basis B with every x displacement multiplied by 1+s
StretchX(B, s) ==
    <<(<<B[1][1] * (1 + s), B[1][2]>>), (<<B[2][1] * (1 + s), B[2][2]>>)>>

\* np.size(reference_axes) < 2
NoReference(ref) == Len(ref) < 2

\* what the peak fitter returns for the disks of a pattern
FittedOf(pattern) ==
    Arr([k \in DOMAIN pattern |-> <<ToRat(pattern[k][1]), ToRat(pattern[k][2])>>])

\* _,_,pattern_axes = fit_nbed_disks(lsc_pattern,disk_size,disk_list,pos_list)
PatternAxes(pattern, spots) == fit_nbed_disks(FittedOf(pattern), spots).lcbed

\* t_pattern = np.matmul(pattern_axes,inverse_axes)
TPattern(pattern_axes, inv) == MatMul(pattern_axes, inv)

\* the bug of leaving the identity in
SPatternNoIdentity(t_pattern) == t_pattern

\* s_pattern = t_pattern - i_matrix
SPattern(t_pattern) == MatSub(t_pattern, i_matrix)

\* the four values of a pixel: -s[0,0], -(s[0,1] + s[1,0]), s[0,1] - s[1,0], -s[1,1]
StrainOf(s_pattern) ==
    [xx |-> RNeg(s_pattern[1][1]),
     xy |-> RNeg(RAdd(s_pattern[1][2], s_pattern[2][1])),
     th |-> RSub(s_pattern[1][2], s_pattern[2][1]),
     yy |-> RNeg(s_pattern[2][2])]

\* the values of the pattern against the inverse reference basis
PixelStrain(pattern, spots, inv) ==
    StrainOf(SPattern(TPattern(PatternAxes(pattern, spots), inv)))

\* the bug of a store that is not confined to its slot
StoreEverySlot(arr, k, v) == [q \in DOMAIN arr |-> v]

\* arr[k] = v
StoreSlot(arr, k, v) == [arr EXCEPT ![k + 1] = v]

\* the basis that is inverted: that of the mean pattern, or the one supplied
ReferenceBasis(ref, mean, spots) ==
    IF NoReference(ref) THEN PatternAxes(mean, spots) ELSE ref

StrainInputs ==
    /\ style \in {"strain_in_ROI", "strain_oldstyle"}
    /\ pos_list \in StrainSpotLists
    /\ \E R \in Lattices : \E k \in 1..MaxROI :
           \E F \in [1..k -> 0..MaxStretch] :
               data4D_ROI = [q \in 1..k |-> Synth(ImageCenter, StretchX(R, F[q]), pos_list)]
    /\ reference_axes \in {<<0>>} \cup {MatOfInts(B) : B \in Lattices}
    \* np.mean over equal patterns is that pattern; over patterns that differ
    \* it is another image, whose disks the model leaves open
    /\ IF ~NoReference(reference_axes) THEN mean_cbed = <<>>
       ELSE IF \A q \in DOMAIN data4D_ROI : data4D_ROI[q] = data4D_ROI[1]
       THEN mean_cbed = data4D_ROI[1]
       ELSE mean_cbed \in {Synth(ImageCenter, B, pos_list) : B \in Lattices}
    /\ inverse_axes = <<>>
    /\ e_xx_ROI = [q \in DOMAIN data4D_ROI |-> RZero]
    /\ e_xy_ROI = [q \in DOMAIN data4D_ROI |-> RZero]
    /\ e_th_ROI = [q \in DOMAIN data4D_ROI |-> RZero]
    /\ e_yy_ROI = [q \in DOMAIN data4D_ROI |-> RZero]

InitStrain ==
    /\ StrainInputs
    /\ pc = "reference"
    /\ ii = 0 /\ jj = 0 /\ IdleRz /\ IdleMap /\ IdleD4 /\ IdleFit /\ IdlePar /\ IdleR2
    /\ IdleClamp

\* the reference basis, from the mean pattern or as supplied, and its inverse
StrainReference ==
    /\ pc = "reference"
    /\ IF NoReference(reference_axes) /\ FitFails(pos_list)
       THEN pc' = "IndexError" /\ UNCHANGED inverse_axes
       ELSE IF Singular(ReferenceBasis(reference_axes, mean_cbed, pos_list))
       THEN pc' = "LinAlgError" /\ UNCHANGED inverse_axes
       ELSE /\ inverse_axes' = Inv2(ReferenceBasis(reference_axes, mean_cbed, pos_list))
            /\ pc' = "loop"
    /\ UNCHANGED <<ii, style, data4D_ROI, pos_list, reference_axes, mean_cbed,
                   e_xx_ROI, e_xy_ROI, e_th_ROI, e_yy_ROI, strainOthers, parVars>>

\* the iteration ii of for ii in range(int(no_of_disks))
StrainPixel ==
    /\ pc = "loop"
    /\ ii < Len(data4D_ROI)
    /\ IF FitFails(pos_list)
       THEN /\ pc' = "IndexError"
            /\ UNCHANGED <<ii, e_xx_ROI, e_xy_ROI, e_th_ROI, e_yy_ROI>>
       ELSE LET e == PixelStrain(data4D_ROI[ii + 1], pos_list, inverse_axes)
            IN  /\ e_xx_ROI' = StoreSlot(e_xx_ROI, ii, e.xx)
                /\ e_xy_ROI' = StoreSlot(e_xy_ROI, ii, e.xy)
                /\ e_th_ROI' = StoreSlot(e_th_ROI, ii, e.th)
                /\ e_yy_ROI' = StoreSlot(e_yy_ROI, ii, e.yy)
                /\ ii' = ii + 1
                /\ pc' = pc
    /\ UNCHANGED <<style, data4D_ROI, pos_list, reference_axes, mean_cbed, inverse_axes,
                   strainOthers, parVars>>

\* return e_xx_ROI,e_xy_ROI,e_th_ROI,e_yy_ROI
StrainReturn ==
    /\ pc = "loop"
    /\ ii = Len(data4D_ROI)
    /\ pc' = "done"
    /\ UNCHANGED <<ii, strainVars, strainOthers, parVars>>

NextStrain == StrainReference \/ StrainPixel \/ StrainReturn

SpecStrain == InitStrain /\ [][NextStrain]_vars

\* the pixels the loop has done
Processed == IF pc \in {"loop", "done"} THEN 1..ii ELSE {}

\* the index list has one central disk and spans the plane
GoodSpots == Cardinality({k \in DOMAIN pos_list : pos_list[k] = <<0, 0>>}) = 1 /\ RankTwo(pos_list)

\* pixel k's pattern is the pattern of the reference: every pattern of the ROI
\* is the mean pattern, or the supplied basis is the pattern's own
SameAsReference(k) ==
    IF NoReference(reference_axes)
    THEN \A q \in DOMAIN data4D_ROI : data4D_ROI[q] = mean_cbed
    ELSE ~FitFails(pos_list) /\ reference_axes = PatternAxes(data4D_ROI[k], pos_list)

(* C3: when the pattern of a pixel is the pattern of the reference, the     *)
(* four strain values of the pixel are 0, in both styles.                  *)
C3_SamePatternZeroStrain ==
    \A k \in Processed :
        SameAsReference(k) =>
            /\ e_xx_ROI[k] = RZero
            /\ e_xy_ROI[k] = RZero
            /\ e_th_ROI[k] = RZero
            /\ e_yy_ROI[k] = RZero

\* two equal patterns of the rotated lattice were measured against their mean
C3_Witness ==
    /\ pc = "done"
    /\ ii = 2
    /\ NoReference(reference_axes)
    /\ pos_list = <<(<<1, 0>>), (<<0 - 1, 1>>), (<<0, 0>>)>>
    /\ data4D_ROI[1] = Synth(ImageCenter, <<(<<1, 0 - 1>>), (<<1, 1>>)>>, pos_list)
    /\ data4D_ROI[2] = data4D_ROI[1]
    /\ mean_cbed = data4D_ROI[1]
    /\ e_xx_ROI = <<RZero, RZero>>

\* the reference basis is the lattice R
ReferenceIs(R) ==
    IF NoReference(reference_axes)
    THEN mean_cbed = Synth(ImageCenter, R, pos_list)
    ELSE reference_axes = MatOfInts(R)

(* C4: for every invertible reference basis R and stretch s, a pattern that *)
(* is the reference pattern stretched by 1+s along x gives e_xx of         *)
(* magnitude s, e_yy = 0 and e_xy = 0.                                     *)
C4_UniaxialStretch ==
    \A k \in Processed : \A R \in Lattices : \A st \in 0..MaxStretch :
        ( /\ GoodSpots
          /\ ~Singular(MatOfInts(R))
          /\ ReferenceIs(R)
          /\ data4D_ROI[k] = Synth(ImageCenter, StretchX(R, st), pos_list) ) =>
            /\ e_xx_ROI[k] \in {ToRat(st), ToRat(0 - st)}
            /\ e_yy_ROI[k] = RZero
            /\ e_xy_ROI[k] = RZero

---------------------------------------------------------------------------
(* region_intensity (eels_tools.py 116-139) and eels_3D (141-161), on an   *)
(* energy axis with pixelOrigin 0 and pixelSize 1, so that xdata[k] = k    *)
(* and a window value is its channel.  The log-log line fit of             *)
(* powerlaw_fit is not computed: the background is the power law of power  *)
(* 0 through the smallest intensity of the fit window, a function of the   *)
(* same arguments.                                                         *)

MinOf(S) == CHOOSE x \in S : \A y \in S : x <= y

\* a[start:stop]
Slice(a, start, stop) == Arr([k \in 1..(stop - start) |-> a[start + k]])

\* eels_clean[:,ii,jj]
Spectrum(A, i, j) == Arr([e \in 1..A.shape[1] |-> A.at[<<e, i + 1, j + 1>>]])

\* fitted = const * (xdata ** power)
powerlaw_fit(ydata, xrange) ==
    LET const == MinOf({ydata[k] : k \in (xrange[1] + 1)..xrange[2]})
    IN  Arr([k \in DOMAIN ydata |-> const])

region_intensity(ydata, xrange, window) ==
    LET fitted_data == powerlaw_fit(ydata, xrange)
        subtracted_data == Arr([k \in DOMAIN ydata |-> ydata[k] - fitted_data[k]])
        start_val == window[1]
        stop_val == window[2]
        inside == Slice(subtracted_data, start_val, stop_val)
        data_floor == MinOf({inside[k] : k \in DOMAIN inside})
    IN  SumInts(Arr([k \in DOMAIN inside |-> inside[k] - data_floor]))

\* the windows of a spectrum of E channels that region_intensity can index
Windows(E) == {w \in (0..(E - 1)) \X (0..(E - 1)) : w[1] < w[2]}

\* the background windows: the channels before the first peak channel
FitWindows(E) == {w \in Windows(E) : w[1] = 0 /\ w[2] = 1}

\* the (energy, y, x) shapes of the spectrum images
EelsShapes ==
    {sh \in (2..MaxEnergies) \X (1..MaxScan) \X (1..MaxScan) : sh[2] * sh[3] <= MaxScan}

\* np.zeros((eels_clean.shape[-2],eels_clean.shape[-1],no_elements))
ZerosPeaks(A, no_elements) ==
    [shape |-> <<A.shape[2], A.shape[3], no_elements>>,
     at |-> [q \in Idx3(<<A.shape[2], A.shape[3], no_elements>>) |-> RZero]]

\* the value of peak_values[i,j,q]
PeakVal(A, fits, peaks, i, j, q) ==
    ToRat(region_intensity(Spectrum(A, i, j), fits[q + 1], peaks[q + 1]))

\* peak_values[i,j,q] = peak_val
StorePeak(P, i, j, q, v) == [P EXCEPT !.at[<<i + 1, j + 1, q + 1>>] = v]

---------------------------------------------------------------------------
(* The per-pixel loops of strain_in_ROI (450-461), strain_oldstyle         *)
(* (488-498) and eels_3D (153-160, a numba.prange) with their iterations   *)
(* run as a parallel map: an iteration starts, does its stores one by one, *)
(* and finishes, and the steps of the iterations interleave in any order.  *)

IsStrain == style \in {"strain_in_ROI", "strain_oldstyle"}

\* the iterations of the outer loop
Iterations ==
    IF IsStrain THEN 0..(Len(data4D_ROI) - 1) ELSE 0..(eels_clean.shape[2] - 1)

\* the stores of one iteration
Stores == IF IsStrain THEN 4 ELSE eels_clean.shape[3] * Len(peak_range)

EelsInputs ==
    /\ style = "eels_3D"
    /\ \E sh \in EelsShapes :
          /\ eels_clean \in {[shape |-> sh, at |-> f] : f \in [Idx3(sh) -> 0..MaxPix]}
          /\ \E k \in 1..MaxElements :
                /\ fit_range \in [1..k -> FitWindows(sh[1])]
                /\ peak_range \in [1..k -> Windows(sh[1])]
    /\ peak_values = <<>>

InitParallel ==
    /\ pc = "setup"
    /\ pending = {}
    /\ running = <<>>
    /\ \/ /\ StrainInputs
          /\ eels_clean = <<>> /\ fit_range = <<>> /\ peak_range = <<>> /\ peak_values = <<>>
       \/ /\ EelsInputs
          /\ data4D_ROI = <<>> /\ pos_list = <<>> /\ reference_axes = <<>>
          /\ mean_cbed = <<>> /\ inverse_axes = <<>>
          /\ e_xx_ROI = <<>> /\ e_xy_ROI = <<>> /\ e_th_ROI = <<>> /\ e_yy_ROI = <<>>
    /\ IdleLoop /\ IdleRz /\ IdleMap /\ IdleD4 /\ IdleFit /\ IdleR2 /\ IdleClamp

parOthers == <<ii, jj, rzVars, mapVars, d4Vars, fitVars, r2Vars, clampVars>>

\* what precedes the loop: the inverse of the reference basis, or peak_values
ParSetup ==
    /\ pc = "setup"
    /\ IF IsStrain
       THEN /\ IF NoReference(reference_axes) /\ FitFails(pos_list)
               THEN pc' = "IndexError" /\ UNCHANGED inverse_axes
               ELSE IF Singular(ReferenceBasis(reference_axes, mean_cbed, pos_list))
               THEN pc' = "LinAlgError" /\ UNCHANGED inverse_axes
               ELSE /\ inverse_axes' = Inv2(ReferenceBasis(reference_axes, mean_cbed, pos_list))
                    /\ pc' = "parallel"
            /\ UNCHANGED peak_values
       ELSE /\ peak_values' = ZerosPeaks(eels_clean, Len(peak_range))
            /\ pc' = "parallel"
            /\ UNCHANGED inverse_axes
    /\ pending' = IF pc' = "parallel" THEN Iterations ELSE pending
    /\ UNCHANGED <<running, style, data4D_ROI, pos_list, reference_axes, mean_cbed,
                   e_xx_ROI, e_xy_ROI, e_th_ROI, e_yy_ROI,
                   eels_clean, fit_range, peak_range, parOthers>>

\* an iteration starts: it reads its pattern and fits the disks, or reads
\* nothing yet
ParStart ==
    /\ pc = "parallel"
    /\ \E k \in pending :
          IF IsStrain /\ FitFails(pos_list)
          THEN pc' = "IndexError" /\ UNCHANGED <<pending, running>>
          ELSE /\ pending' = pending \ {k}
               /\ running' = [w \in DOMAIN running \cup {k} |-> IF w = k THEN 0 ELSE running[w]]
               /\ pc' = pc
    /\ UNCHANGED <<strainVars, eels_clean, fit_range, peak_range, peak_values, parOthers>>

\* the next of the four stores of an iteration of a strain loop
ParStrainStore ==
    /\ pc = "parallel"
    /\ IsStrain
    /\ \E k \in DOMAIN running :
          /\ running[k] < Stores
          /\ LET e == PixelStrain(data4D_ROI[k + 1], pos_list, inverse_axes)
                 at == running[k]
             IN  /\ e_xx_ROI' = IF at = 0 THEN StoreSlot(e_xx_ROI, k, e.xx) ELSE e_xx_ROI
                 /\ e_xy_ROI' = IF at = 1 THEN StoreSlot(e_xy_ROI, k, e.xy) ELSE e_xy_ROI
                 /\ e_th_ROI' = IF at = 2 THEN StoreSlot(e_th_ROI, k, e.th) ELSE e_th_ROI
                 /\ e_yy_ROI' = IF at = 3 THEN StoreSlot(e_yy_ROI, k, e.yy) ELSE e_yy_ROI
          /\ running' = [running EXCEPT ![k] = @ + 1]
    /\ UNCHANGED <<pc, pending, style, data4D_ROI, pos_list, reference_axes, mean_cbed,
                   inverse_axes, eels_clean, fit_range, peak_range, peak_values, parOthers>>

\* the next store of an iteration of eels_3D: its loops over jj and qq
ParEelsStore ==
    /\ pc = "parallel"
    /\ ~IsStrain
    /\ \E k \in DOMAIN running :
          /\ running[k] < Stores
          /\ LET j == running[k] \div Len(peak_range)
                 q == running[k] % Len(peak_range)
             IN  peak_values' = StorePeak(peak_values, k, j, q,
                                          PeakVal(eels_clean, fit_range, peak_range, k, j, q))
          /\ running' = [running EXCEPT ![k] = @ + 1]
    /\ UNCHANGED <<pc, pending, strainVars, eels_clean, fit_range, peak_range, parOthers>>

\* an iteration ends
ParFinish ==
    /\ pc = "parallel"
    /\ \E k \in DOMAIN running :
          /\ running[k] = Stores
          /\ running' = [w \in DOMAIN running \ {k} |-> running[w]]
    /\ UNCHANGED <<pc, pending, strainVars, eels_clean, fit_range, peak_range, peak_values,
                   parOthers>>

\* every iteration has ended
ParReturn ==
    /\ pc = "parallel"
    /\ pending = {}
    /\ DOMAIN running = {}
    /\ pc' = "done"
    /\ UNCHANGED <<strainVars, parVars, parOthers>>

NextParallel ==
    ParSetup \/ ParStart \/ ParStrainStore \/ ParEelsStore \/ ParFinish \/ ParReturn

SpecParallel == InitParallel /\ [][NextParallel]_vars

\* the four arrays after the iterations k, k+1, .. of the sequential loop
RECURSIVE StrainLoop(_, _)
StrainLoop(out, k) ==
    IF k >= Len(data4D_ROI) THEN out
    ELSE LET e == PixelStrain(data4D_ROI[k + 1], pos_list, inverse_axes)
         IN  StrainLoop([xx |-> StoreSlot(out.xx, k, e.xx), xy |-> StoreSlot(out.xy, k, e.xy),
                         th |-> StoreSlot(out.th, k, e.th), yy |-> StoreSlot(out.yy, k, e.yy)],
                        k + 1)

\* what the sequential strain loop returns
SequentialStrain ==
    LET zeros == [q \in DOMAIN data4D_ROI |-> RZero]
    IN  StrainLoop([xx |-> zeros, xy |-> zeros, th |-> zeros, yy |-> zeros], 0)

\* peak_values after the stores p, p+1, .. of the sequential loops, in the
\* order of ii, jj, qq
RECURSIVE EelsLoop(_, _)
EelsLoop(P, p) ==
    LET Q == Len(peak_range)
        X == eels_clean.shape[3]
    IN  IF p >= eels_clean.shape[2] * X * Q THEN P
        ELSE LET i == p \div (X * Q)
                 j == (p \div Q) % X
                 q == p % Q
             IN  EelsLoop(StorePeak(P, i, j, q,
                                    PeakVal(eels_clean, fit_range, peak_range, i, j, q)),
                          p + 1)

\* what the sequential eels_3D returns
SequentialEels == EelsLoop(ZerosPeaks(eels_clean, Len(peak_range)), 0)

\* the number of stores iteration k has done
StoresDone(k) ==
    IF k \in pending THEN 0
    ELSE IF k \in DOMAIN running THEN running[k]
    ELSE Stores

(* C9: in any interleaving of the iterations, a slot holds the value of the *)
(* sequential loop once its iteration has stored it and 0 before, so an     *)
(* iteration writes only its own slots; the inverse reference basis stays   *)
(* the one computed before the loop; and the arrays returned are those of   *)
(* the sequential loop.                                                     *)
C9_IterationsDisjoint ==
    pc \in {"parallel", "done"} =>
        IF IsStrain
        THEN LET seq == SequentialStrain
             IN  /\ inverse_axes = Inv2(ReferenceBasis(reference_axes, mean_cbed, pos_list))
                 /\ \A k \in Iterations :
                       /\ e_xx_ROI[k + 1] = IF StoresDone(k) > 0 THEN seq.xx[k + 1] ELSE RZero
                       /\ e_xy_ROI[k + 1] = IF StoresDone(k) > 1 THEN seq.xy[k + 1] ELSE RZero
                       /\ e_th_ROI[k + 1] = IF StoresDone(k) > 2 THEN seq.th[k + 1] ELSE RZero
                       /\ e_yy_ROI[k + 1] = IF StoresDone(k) > 3 THEN seq.yy[k + 1] ELSE RZero
                 /\ pc = "done" =>
                       <<e_xx_ROI, e_xy_ROI, e_th_ROI, e_yy_ROI>> = <<seq.xx, seq.xy, seq.th, seq.yy>>
        ELSE LET seq == SequentialEels
             IN  /\ \A s \in Idx3(peak_values.shape) :
                       peak_values.at[s] =
                           IF (s[2] - 1) * Len(peak_range) + (s[3] - 1) < StoresDone(s[1] - 1)
                           THEN seq.at[s] ELSE RZero
                 /\ pc = "done" => peak_values = seq

\* the second iteration is ahead of the first, both in the middle of their
\* stores, and the two pixels differ in strain
C9_Witness ==
    /\ pc = "parallel"
    /\ IsStrain
    /\ DOMAIN running = {0, 1}
    /\ running[0] = 1
    /\ running[1] = 3
    /\ e_xx_ROI[1] # RZero
    /\ e_xx_ROI[2] # e_xx_ROI[1]
    /\ e_xy_ROI[1] = RZero
    /\ e_xy_ROI[2] # RZero

---------------------------------------------------------------------------
(* resizer2D (nbed_strain.py 183-223) run loop by loop, with sampling      *)
(* factors that are rationals, so that an axis may also grow.              *)

\* the 2D arrays of at most k elements, of values 0 .. MaxVal
Arrays2D(k) ==
    UNION {{[shape |-> sh, at |-> f] : f \in [Idx2(sh) -> {ToRat(v) : v \in 0..MaxVal}]} :
           sh \in Shapes2D(k)}

\* the sampling factors of an axis
Samplings == {Rat(a, b) : a \in 1..MaxSampling, b \in 1..2}

\* sampled_shape = (np.round(data_shape/sampling)).astype(int)
SampledShapeOf(sh, smp) ==
    <<RoundHalfEven(sh[1] * smp[1][2], smp[1][1]), RoundHalfEven(sh[2] * smp[2][2], smp[2][1])>>

\* np.zeros(sh, dtype=np.float64)
Zeros2D(sh) == [shape |-> sh, at |-> [q \in Idx2(sh) |-> RZero]]

\* B[yy,:] = v
StoreRow(B, yy, v) ==
    [B EXCEPT !.at = [q \in DOMAIN B.at |-> IF q[1] = yy + 1 THEN v[q[2]] ELSE B.at[q]]]

\* the bug of storing every column at column 0
StoreColFirst(B, xx, v) ==
    [B EXCEPT !.at = [q \in DOMAIN B.at |-> IF q[2] = 1 THEN v[q[1]] ELSE B.at[q]]]

\* B[:,xx] = v
StoreCol(B, xx, v) ==
    [B EXCEPT !.at = [q \in DOMAIN B.at |-> IF q[2] = xx + 1 THEN v[q[1]] ELSE B.at[q]]]

InitResizer2D ==
    /\ data2D \in Arrays2D(MaxR2Elems)
    /\ sampling \in Samplings \X Samplings
    /\ resampled_x = <<>>
    /\ resampled = <<>>
    /\ ii = 0 /\ jj = 0
    /\ pc = "call"
    /\ IdleRz /\ IdleMap /\ IdleD4 /\ IdleFit /\ IdleStrain /\ IdlePar /\ IdleClamp

\* sampled_shape and the two zero arrays
R2Alloc ==
    /\ pc = "call"
    /\ LET sampled_shape == SampledShapeOf(data2D.shape, sampling)
       IN  /\ resampled_x' = Zeros2D(<<data2D.shape[1], sampled_shape[2]>>)
           /\ resampled' = Zeros2D(sampled_shape)
    /\ pc' = "loops"
    /\ UNCHANGED <<ii, jj, data2D, sampling, r2Others>>

\* for yy: resampled_x[yy,:] = resizer(data[yy,:],sampled_shape[1])
R2Row ==
    /\ pc = "loops"
    /\ ii < data2D.shape[1]
    /\ resampled_x' = StoreRow(resampled_x, ii, resizer(Row(data2D, ii + 1), resampled.shape[2]))
    /\ ii' = ii + 1
    /\ UNCHANGED <<pc, jj, data2D, sampling, resampled, r2Others>>

\* for xx: resampled[:,xx] = resizer(resampled_x[:,xx],sampled_shape[0])
R2Col ==
    /\ pc = "loops"
    /\ ii = data2D.shape[1]
    /\ jj < resampled.shape[2]
    /\ resampled' = StoreCol(resampled, jj, resizer(Col(resampled_x, jj + 1), resampled.shape[1]))
    /\ jj' = jj + 1
    /\ UNCHANGED <<pc, ii, data2D, sampling, resampled_x, r2Others>>

\* return resampled
R2Return ==
    /\ pc = "loops"
    /\ ii = data2D.shape[1]
    /\ jj = resampled.shape[2]
    /\ pc' = "done"
    /\ UNCHANGED <<ii, jj, r2Vars, r2Others>>

NextResizer2D == R2Alloc \/ R2Row \/ R2Col \/ R2Return

SpecResizer2D == InitResizer2D /\ [][NextResizer2D]_vars

\* the columns of A resampled to n0 entries, then the rows of that to n1
ColumnsFirst(A, n0, n1) == ResampleRows(ResampleCols(A, n0), n1)

(* C11: the array resizer2D returns, rows resampled first and columns      *)
(* second, equals the array obtained by resampling the columns first and   *)
(* the rows second, for every array and every pair of target sizes.        *)
C11_AxisOrderIndependent ==
    pc = "done" =>
        LET sampled_shape == SampledShapeOf(data2D.shape, sampling)
            other == ColumnsFirst(data2D, sampled_shape[1], sampled_shape[2])
        IN  /\ resampled.shape = sampled_shape
            /\ other.shape = sampled_shape
            /\ \A q \in Idx2(sampled_shape) : resampled.at[q] = other.at[q]

\* a 2x2 array that is not symmetric was resampled to 1x4
C11_Witness ==
    /\ pc = "done"
    /\ data2D.shape = <<2, 2>>
    /\ data2D.at[<<1, 1>>] = ToRat(1) /\ data2D.at[<<1, 2>>] = ToRat(2)
    /\ data2D.at[<<2, 1>>] = ToRat(0) /\ data2D.at[<<2, 2>>] = ToRat(2)
    /\ sampling = <<Rat(2, 1), Rat(1, 2)>>
    /\ resampled.shape = <<1, 4>>
    /\ resampled.at[<<1, 1>>] = Rat(1, 2)
    /\ resampled.at[<<1, 4>>] = ToRat(2)

---------------------------------------------------------------------------
(* The outlier clamp of strain_in_ROI (nbed_strain.py 443-444 for the mean *)
(* pattern, 452-453 for a pattern), on the edge image sc.sobel returned.   *)
(* The ROI has one pattern, so the mean pattern and its edge image are     *)
(* those of the pattern.  In a[a > f*np.median(a)] = np.median(a), Python  *)
(* evaluates the right-hand side, then the index, then stores.             *)

\* the k-th smallest entry of a sequence of rationals
KthSmallest(flat, k) ==
    CHOOSE x \in {flat[i] : i \in DOMAIN flat} :
        /\ Cardinality({i \in DOMAIN flat : ~RLeq(x, flat[i])}) < k
        /\ Cardinality({i \in DOMAIN flat : RLeq(flat[i], x)}) >= k

\* np.median of all the entries: the middle one, or the mean of the middle two
Median(img) ==
    LET flat == Ravel(img)
        cnt == Len(flat)
    IN  IF cnt % 2 = 1 THEN KthSmallest(flat, (cnt + 1) \div 2)
        ELSE RDiv(RAdd(KthSmallest(flat, cnt \div 2), KthSmallest(flat, (cnt \div 2) + 1)),
                  ToRat(2))

\* the bug of clamping the entries that equal the limit too
ExceedsOrEquals(x, lim) == RLeq(lim, x)

\* x > lim
Exceeds(x, lim) == ~RLeq(x, lim)

\* a > med_factor*np.median(a)
OutlierMask(img, f) ==
    LET lim == RMul(f, Median(img))
    IN  Arr([r \in DOMAIN img |-> Arr([c \in DOMAIN img[r] |-> Exceeds(img[r][c], lim)])])

\* a[a > med_factor*np.median(a)] = np.median(a)
Clamp(img, f) ==
    LET value == Median(img)
        mask == OutlierMask(img, f)
    IN  MaskAssign(img, mask, <<value>>)

\* the edge images of at most k pixels, of values -1 .. MaxVal
EdgeImages(k) ==
    UNION {[1..sh[1] -> [1..sh[2] -> {ToRat(v) : v \in (0 - 1)..MaxVal}]] : sh \in Shapes2D(k)}

\* with reference_axes given the mean pattern is not looked at
InitClamp ==
    /\ edges \in EdgeImages(MaxEdgeElems)
    /\ med_factor \in {Rat(a, 2) : a \in 1..(2 * MaxMedFactor)}
    /\ pc \in {"mean", "pattern"}
    /\ sobel_lm_cbed = IF pc = "mean" THEN edges ELSE <<>>
    /\ sobel_log_pattern = edges
    /\ IdleLoop /\ IdleRz /\ IdleMap /\ IdleD4 /\ IdleFit /\ IdleStrain /\ IdlePar /\ IdleR2

\* sobel_lm_cbed[sobel_lm_cbed > med_factor*np.median(sobel_lm_cbed)] = np.median(sobel_lm_cbed)
ClampMean ==
    /\ pc = "mean"
    /\ sobel_lm_cbed' = Clamp(sobel_lm_cbed, med_factor)
    /\ pc' = "pattern"
    /\ UNCHANGED <<edges, med_factor, sobel_log_pattern, clampOthers>>

\* sobel_log_pattern[sobel_log_pattern > med_factor*np.median(sobel_log_pattern)] = ...
ClampPattern ==
    /\ pc = "pattern"
    /\ sobel_log_pattern' = Clamp(sobel_log_pattern, med_factor)
    /\ pc' = "clamped"
    /\ UNCHANGED <<edges, med_factor, sobel_lm_cbed, clampOthers>>

NextClamp == ClampMean \/ ClampPattern

SpecClamp == InitClamp /\ [][NextClamp]_vars

\* img is the edge image with the entries above med_factor * median set to
\* the median, and within the limit when med_factor >= 1 and the median >= 0
ClampedFrom(img, before, f) ==
    LET med == Median(before)
        lim == RMul(f, med)
    IN  /\ DOMAIN img = DOMAIN before
        /\ \A r \in DOMAIN before :
              /\ DOMAIN img[r] = DOMAIN before[r]
              /\ \A c \in DOMAIN before[r] :
                    /\ ~RLeq(before[r][c], lim) => img[r][c] = med
                    /\ RLeq(before[r][c], lim) => img[r][c] = before[r][c]
                    /\ (RLeq(ToRat(1), f) /\ RLeq(RZero, med)) => RLeq(img[r][c], lim)

(* C12: after the clamp of the pattern, and after the clamp of the mean    *)
(* pattern, every entry that was greater than med_factor * m, m the median *)
(* before the clamp, is m, every other entry is unchanged, and for         *)
(* med_factor >= 1 and m >= 0 no entry exceeds med_factor * m.             *)
C12_ClampToMedian ==
    /\ (pc = "clamped") => ClampedFrom(sobel_log_pattern, edges, med_factor)
    /\ (pc \in {"pattern", "clamped"} /\ sobel_lm_cbed # <<>>) =>
           ClampedFrom(sobel_lm_cbed, edges, med_factor)

\* a hot pixel of a 2x2 edge image was set to the median 1/2, and the clamp
\* changed the median of the image
C12_Witness ==
    /\ pc = "clamped"
    /\ edges = <<(<<ToRat(0), ToRat(1)>>), (<<ToRat(2), ToRat(0)>>)>>
    /\ med_factor = ToRat(2)
    /\ sobel_lm_cbed # <<>>
    /\ sobel_log_pattern = <<(<<ToRat(0), ToRat(1)>>), (<<Rat(1, 2), ToRat(0)>>)>>
    /\ Median(sobel_log_pattern) # Median(edges)

---------------------------------------------------------------------------
(* The index walk of resizer (nbed_strain.py 168-181).  The function runs  *)
(* on its own thread of control, so a step that can be taken is taken.     *)

\* the walk depends on the lengths alone: the samples are a ramp, rising
\* or falling, so that no two of them are equal
InitWalk ==
    /\ \E MM \in 1..MaxWalkLen : data \in {[k \in 1..MM |-> s * k] : s \in {1, 0 - 1}}
    /\ N \in 1..MaxWalkN
    /\ res = [k \in 1..N |-> RZero]
    /\ carry = RZero
    /\ m = 0
    /\ n = 0
    /\ data_sum = RZero
    /\ pc = "for"
    /\ IdleLoop /\ IdleMap /\ IdleD4 /\ IdleFit /\ IdleStrain /\ IdlePar /\ IdleR2
    /\ IdleClamp

FairSpecResizer == InitWalk /\ [][NextResizer]_vars /\ WF_vars(NextResizer)

\* the reads of the step to come use an index of data: data[m] in the body
\* of the while loop, data[m-1] in the carry
ReadsInside ==
    /\ pc # "IndexError"
    /\ (pc = "while" /\ WhileCond(m, n, Len(data), N)) => m \in 0..(Len(data) - 1)
    /\ (pc = "while" /\ ~WhileCond(m, n, Len(data), N)) => (m - 1) \in 0..(Len(data) - 1)

\* the last bin has been written
LastBinWritten == n = N /\ pc \in {"for", "done"}

\* m moves only forward, by one, and as it passes a sample that sample is
\* added; a step that leaves m alone adds no sample
WalkStep ==
    /\ m' >= m
    /\ m' # m =>
          /\ m' = m + 1
          /\ m \in 0..(Len(data) - 1)
          /\ data_sum' = RAdd(data_sum, ToRat(data[m + 1]))
    /\ m' = m => (data_sum' = data_sum \/ data_sum' = carry \/ data_sum' = RSub(data_sum, carry'))

(* C13: for every length M >= 1 and target N >= 1 the walk ends with the   *)
(* array returned; every read data[m] and data[m-1] has its index in       *)
(* 0..M-1, with m >= 1 when the carry is computed; m never decreases; each *)
(* sample is added once, as m passes it; and when the last bin is written  *)
(* m = M and the carry is 0.                                               *)
C13_IndexWalk ==
    /\ [](ReadsInside /\ (LastBinWritten => (m = Len(data) /\ carry = RZero)))
    /\ [][WalkStep]_vars
    /\ <>(pc = "done")

\* an array of two samples was stretched to five bins, some of which take no
\* new sample and one of which straddles the two
C13_Witness ==
    /\ pc = "done"
    /\ data = <<1, 2>>
    /\ N = 5
    /\ m = 2
    /\ carry = RZero
    /\ res[3] = Rat(3, 2)

=============================================================================
